---------------------------- MODULE Spec2Model ----------------------------
(***************************************************************************)
(* A model of the IMA measurement-log parser of ima-measurements-rs        *)
(* (src/src/lib.rs): the record decoder Parser::next, the template         *)
(* dispatcher EventData::parse, the field decoders parse_digest and        *)
(* parse_name, and the projection pcr_extender_to_values of the register   *)
(* tracker.  Bytes are naturals 0..255, byte strings are sequences of      *)
(* bytes, and Rust strings are kept as their UTF-8 bytes.                  *)
(*                                                                         *)
(* The register tracker (PcrExtender) and DigestAlgorithm come from the    *)
(* crate tpmless_tpm2, whose code is not part of this repository.  They    *)
(* are modelled at their call sites: a register value is the symbolic     *)
(* hash chain of the byte spans extended into it (the empty chain is the   *)
(* all-zero register), so two register values are equal exactly when the   *)
(* same spans were extended in the same order.                             *)
(***************************************************************************)
EXTENDS Naturals, Sequences, FiniteSets

VARIABLES
    stream,     \* Parser.reader: the bytes of the source
    pos,        \* Parser.reader: number of bytes already consumed
    banks,      \* Parser.pcr_tracker: [algorithm -> [register -> value]]
    last,       \* what the latest call of next returned and read
    yielded,    \* history: the records yielded so far, in order
    failed,     \* history: some call of next has returned an error
    pc,         \* "iter": parser usable, "aborted": panicked, "done": consumed
    snapshot,   \* the PcrValues returned by pcr_values (once pc = "done")
    log,        \* ghost: the records the source was written from
    dig         \* state of the separate parse_digest specification

vars == << stream, pos, banks, last, yielded, failed, pc, snapshot, log, dig >>

---------------------------------------------------------------------------
(* Bounds of the model *)

\* records per log
MaxRecords == 2
\* registers per bank of the modelled tracker
NumPcrs == 2
\* bytes after the separator in the inputs of the parse_digest specification
MaxTail == 2

---------------------------------------------------------------------------
(* Program constants *)

Sha1Len == 20
TemplateSha1Len == 20
U32Len == 4
Colon == 58
Nul == 0

TemplateIma == << 105, 109, 97 >>
TemplateImaNg == << 105, 109, 97, 45, 110, 103 >>
TemplateImaSig == << 105, 109, 97, 45, 115, 105, 103 >>
TemplateImaBuf == << 105, 109, 97, 45, 98, 117, 102 >>
TemplateImaModsig == << 105, 109, 97, 45, 109, 111, 100, 115, 105, 103 >>

AlgoSha1 == << 115, 104, 97, 49 >>
AlgoSha256 == << 115, 104, 97, 50, 53, 54 >>
AlgoSha384 == << 115, 104, 97, 51, 56, 52 >>
AlgoSha512 == << 115, 104, 97, 53, 49, 50 >>

\* PcrExtenderBuilder ... add_digest_method x 4
Algorithms == { AlgoSha1, AlgoSha256, AlgoSha384, AlgoSha512 }

---------------------------------------------------------------------------
(* Byte-level helpers *)

\* ReadBytesExt::read_u32::<LittleEndian> on four bytes
LE32(b) == b[1] + 256 * b[2] + 65536 * b[3] + 16777216 * b[4]

Drop(s, n) == SubSeq(s, n + 1, Len(s))

\* Read::read_exact(n) on source s at cursor p.  A short source fails with
\* UnexpectedEof after the remaining bytes have been consumed.
read_exact(s, p, n) ==
    IF p + n <= Len(s)
    THEN [ok |-> TRUE, bytes |-> SubSeq(s, p + 1, p + n), pos |-> p + n]
    ELSE [ok |-> FALSE, bytes |-> << >>, pos |-> Len(s)]

U32Of(r) == [ok |-> r.ok, val |-> IF r.ok THEN LE32(r.bytes) ELSE 0, pos |-> r.pos]

\* ReadBytesExt::read_u32::<LittleEndian>() on source s at cursor p
read_u32(s, p) == U32Of(read_exact(s, p, U32Len))

IsCont(b) == b >= 128 /\ b <= 191

\* std::str::from_utf8 / String::from_utf8: TRUE iff s is well-formed UTF-8
RECURSIVE from_utf8(_)
from_utf8(s) ==
    IF s = << >> THEN TRUE
    ELSE LET b == s[1]
             n == Len(s)
         IN  IF b < 128 THEN from_utf8(Drop(s, 1))
             ELSE IF b >= 194 /\ b <= 223
                  THEN n >= 2 /\ IsCont(s[2]) /\ from_utf8(Drop(s, 2))
             ELSE IF b >= 224 /\ b <= 239
                  THEN /\ n >= 3
                       /\ IsCont(s[2]) /\ IsCont(s[3])
                       /\ (b = 224 => s[2] >= 160)
                       /\ (b = 237 => s[2] <= 159)
                       /\ from_utf8(Drop(s, 3))
             ELSE IF b >= 240 /\ b <= 244
                  THEN /\ n >= 4
                       /\ IsCont(s[2]) /\ IsCont(s[3]) /\ IsCont(s[4])
                       /\ (b = 240 => s[2] >= 144)
                       /\ (b = 244 => s[2] <= 143)
                       /\ from_utf8(Drop(s, 4))
             ELSE FALSE

EndsWith(s, pat) ==
    /\ Len(s) >= Len(pat)
    /\ SubSeq(s, Len(s) - Len(pat) + 1, Len(s)) = pat

\* str::trim_end_matches(pat): strip the suffix pat as often as it occurs
RECURSIVE trim_end_matches(_, _)
trim_end_matches(s, pat) ==
    IF EndsWith(s, pat)
    THEN trim_end_matches(SubSeq(s, 1, Len(s) - Len(pat)), pat)
    ELSE s

\* buf.iter().position(|&r| r == b): index (from 0) of the first b, or -1
\* encoded as Len(buf) when there is none
position(buf, b) ==
    IF \E i \in 1..Len(buf) : buf[i] = b
    THEN (CHOOSE i \in 1..Len(buf) :
              buf[i] = b /\ \A j \in 1..(i - 1) : buf[j] # b) - 1
    ELSE Len(buf)

\* CStr::from_bytes_with_nul: exactly one NUL, at the end
from_bytes_with_nul(buf) ==
    /\ Len(buf) >= 1
    /\ buf[Len(buf)] = Nul
    /\ \A i \in 1..(Len(buf) - 1) : buf[i] # Nul

\* DigestAlgorithm::from_str: TRUE iff the identifier names an algorithm
from_str(algo) == algo \in Algorithms


---------------------------------------------------------------------------
(* Field decoders *)

DigestResult(kind, err, algo, digest, p) ==
    [kind |-> kind, err |-> err, algo |-> algo, digest |-> digest, pos |-> p]

\* DigestAlgorithm::from_str(algo)? and the construction of the Digest
lookup_algo(algo, digest, p) ==
    IF from_str(algo)
    THEN DigestResult("ok", "", algo, digest, p)
    ELSE DigestResult("err", "UnknownAlgo", algo, << >>, p)

\* buf.split_at(split + 2), which panics when split + 2 exceeds the length
\* of buf, then std::str::from_utf8(algo)?.trim_end_matches(":\0")
split_at(buf, split, p) ==
    IF split + 2 > Len(buf)
    THEN DigestResult("panic", "split_at", << >>, << >>, p)
    ELSE IF ~from_utf8(SubSeq(buf, 1, split + 2))
         THEN DigestResult("err", "Utf8Str", << >>, << >>, p)
         ELSE lookup_algo(trim_end_matches(SubSeq(buf, 1, split + 2), << Colon, Nul >>),
                          Drop(buf, split + 2), p)

\* The non-legacy branch of parse_digest on the field content buf: the
\* identifier is what precedes the first ':'
split_digest(buf, p) ==
    IF \A i \in 1..Len(buf) : buf[i] # Colon
    THEN DigestResult("err", "DataError", << >>, << >>, p)
    ELSE split_at(buf, position(buf, Colon), p)

\* parse_digest once the field content b has been read
digest_of(is_legacy, b) ==
    IF ~b.ok THEN DigestResult("err", "Io", << >>, << >>, b.pos)
    ELSE IF is_legacy THEN lookup_algo(AlgoSha1, b.bytes, b.pos)
    ELSE split_digest(b.bytes, b.pos)

\* parse_digest once the field length l is known
digest_of_len(is_legacy, s, l) ==
    IF ~l.ok THEN DigestResult("err", "Io", << >>, << >>, l.pos)
    ELSE digest_of(is_legacy, read_exact(s, l.pos, l.val))

\* parse_digest(is_legacy_ima_template, reader) with the reader at cursor p of s
parse_digest(is_legacy, s, p) ==
    digest_of_len(is_legacy, s,
        IF is_legacy THEN [ok |-> TRUE, val |-> Sha1Len, pos |-> p]
        ELSE read_u32(s, p))

NameResult(kind, err, name, p) ==
    [kind |-> kind, err |-> err, name |-> name, pos |-> p]

\* String::from_utf8(buf)? then trim_end_matches('\0')
name_raw(buf, p) ==
    IF from_utf8(buf)
    THEN NameResult("ok", "", trim_end_matches(buf, << Nul >>), p)
    ELSE NameResult("err", "Utf8", << >>, p)

\* CStr::from_bytes_with_nul(&buf)?.to_str()? then trim_end_matches('\0')
name_cstr(buf, p) ==
    IF ~from_bytes_with_nul(buf)
    THEN NameResult("err", "FromCString", << >>, p)
    ELSE IF from_utf8(SubSeq(buf, 1, Len(buf) - 1))
         THEN NameResult("ok", "",
                  trim_end_matches(SubSeq(buf, 1, Len(buf) - 1), << Nul >>), p)
         ELSE NameResult("err", "Utf8Str", << >>, p)

\* parse_name once the field content b has been read
name_of(is_legacy, b) ==
    IF ~b.ok THEN NameResult("err", "Io", << >>, b.pos)
    ELSE IF is_legacy THEN name_raw(b.bytes, b.pos)
    ELSE name_cstr(b.bytes, b.pos)

\* parse_name once the field length l is known
name_of_len(is_legacy, s, l) ==
    IF ~l.ok THEN NameResult("err", "Io", << >>, l.pos)
    ELSE name_of(is_legacy, read_exact(s, l.pos, l.val))

\* parse_name(is_legacy_ima_template, reader): raw text when the flag is set,
\* a NUL-terminated C string otherwise
parse_name(is_legacy, s, p) == name_of_len(is_legacy, s, read_u32(s, p))

---------------------------------------------------------------------------
(* Template dispatcher *)

NoDigest == [algo |-> << >>, digest |-> << >>]

DataResult(kind, err, variant, digest, name, fields, p) ==
    [kind |-> kind, err |-> err, variant |-> variant,
     digest |-> digest, name |-> name, fields |-> fields, pos |-> p]

DigestField(legacy) == [field |-> "digest", legacy |-> legacy]
NameField(legacy) == [field |-> "name", legacy |-> legacy]

\* the rest of an arm once the digest d and the name n are decoded: the
\* first trailing decoder (parse_signature, parse_buffer, parse_modsig), if
\* the template has one, is todo!() and panics
fields_after_name(variant, d, fields, trailing, n) ==
    IF n.kind # "ok"
    THEN DataResult(n.kind, n.err, variant, NoDigest, << >>, fields, n.pos)
    ELSE IF trailing # << >>
         THEN DataResult("panic", "todo", variant, NoDigest, << >>,
                  Append(fields, [field |-> trailing[1], legacy |-> FALSE]), n.pos)
         ELSE DataResult("ok", "", variant,
                  [algo |-> d.algo, digest |-> d.digest], n.name, fields, n.pos)

\* the rest of an arm once the digest d is decoded: parse_name(..)?
fields_after_digest(variant, digest_legacy, name_legacy, trailing, s, d) ==
    IF d.kind # "ok"
    THEN DataResult(d.kind, d.err, variant, NoDigest, << >>,
             << DigestField(digest_legacy) >>, d.pos)
    ELSE fields_after_name(variant, d,
             << DigestField(digest_legacy), NameField(name_legacy) >>,
             trailing, parse_name(name_legacy, s, d.pos))

\* One arm of the match in EventData::parse: the digest, then the name, then
\* the trailing decoders.  The fields of the result list the decoders called,
\* in order, with the layout flag each was given.
parse_fields(variant, digest_legacy, name_legacy, trailing, s) ==
    fields_after_digest(variant, digest_legacy, name_legacy, trailing, s,
        parse_digest(digest_legacy, s, 0))

\* a dispatcher that decodes the name of "ima-ng" as a C string
EventData_parse_ng_cstr(template_name, s) ==
    IF template_name = TemplateIma
    THEN parse_fields("Ima", TRUE, TRUE, << >>, s)
    ELSE IF template_name = TemplateImaNg
    THEN parse_fields("ImaNg", FALSE, FALSE, << >>, s)
    ELSE IF template_name = TemplateImaSig
    THEN parse_fields("ImaSig", FALSE, FALSE, << "signature" >>, s)
    ELSE IF template_name = TemplateImaBuf
    THEN parse_fields("ImaBuf", FALSE, FALSE, << "buffer" >>, s)
    ELSE IF template_name = TemplateImaModsig
    THEN parse_fields("ImaModsig", FALSE, FALSE, << "signature", "modsig" >>, s)
    ELSE DataResult("err", "UnsupportedTemplate", "", NoDigest, << >>, << >>, 0)

\* EventData::parse(template_name, reader), the reader being the slice s
EventData_parse(template_name, s) ==
    IF template_name = TemplateIma
    THEN parse_fields("Ima", TRUE, TRUE, << >>, s)
    ELSE IF template_name = TemplateImaNg
    THEN parse_fields("ImaNg", FALSE, TRUE, << >>, s)
    ELSE IF template_name = TemplateImaSig
    THEN parse_fields("ImaSig", FALSE, FALSE, << "signature" >>, s)
    ELSE IF template_name = TemplateImaBuf
    THEN parse_fields("ImaBuf", FALSE, FALSE, << "buffer" >>, s)
    ELSE IF template_name = TemplateImaModsig
    THEN parse_fields("ImaModsig", FALSE, FALSE, << "signature", "modsig" >>, s)
    ELSE DataResult("err", "UnsupportedTemplate", "", NoDigest, << >>, << >>, 0)

---------------------------------------------------------------------------
(* Register tracker *)

Registers == 0..(NumPcrs - 1)

\* the all-zero register value
Zero == << >>

\* PcrExtenderBuilder::new() ... build(): every register of every bank zero
NewTracker == [a \in Algorithms |-> [r \in Registers |-> Zero]]

\* an extend that reaches the sha1 bank only
extend_sha1_only(tr, index, data) ==
    IF index \in Registers
    THEN [ok |-> TRUE,
          tracker |-> [tr EXCEPT ![AlgoSha1][index] = Append(@, data)]]
    ELSE [ok |-> FALSE, tracker |-> tr]

\* PcrExtender::extend(pcr_index, data): new = Hash(old || Hash(data)) in
\* every bank.  The crate's code is not in this repository: its Err, which
\* next returns through `?`, is taken to be the refusal of an index outside
\* the banks, with no register changed.
extend(tr, index, data) ==
    IF index \in Registers
    THEN [ok |-> TRUE,
          tracker |-> [a \in Algorithms |->
                          [tr[a] EXCEPT ![index] = Append(@, data)]]]
    ELSE [ok |-> FALSE, tracker |-> tr]

\* a zero check that never skips a register
is_empty_never(val) == FALSE

\* val.iter().all(|v| *v == 0x00)
is_empty(val) == val = Zero

\* pcr_extender_to_values(ext): one entry per register that is non-zero in
\* some bank, holding that register's value in each of the four banks
pcr_extender_to_values(tr) ==
    LET present == { r \in Registers : \E a \in Algorithms : ~is_empty(tr[a][r]) }
    IN  [r \in present |->
            [sha1 |-> tr[AlgoSha1][r], sha256 |-> tr[AlgoSha256][r],
             sha384 |-> tr[AlgoSha384][r], sha512 |-> tr[AlgoSha512][r]]]

---------------------------------------------------------------------------
(* Record decoder *)

NoData == DataResult("none", "", "", NoDigest, << >>, << >>, 0)

Header(kind, err, index, tsha, tname, span, p) ==
    [kind |-> kind, err |-> err, index |-> index, template_sha1 |-> tsha,
     template_name |-> tname, span |-> span, pos |-> p]

\* a failed read of the register index reported as an error
index_read_err(i) == Header("err", "Io", 0, << >>, << >>, << >>, i.pos)

\* Err(e) of the read of the register index: e.kind() is UnexpectedEof, the
\* only failure of an in-memory source, and next returns Ok(None)
index_read_failed(i) == Header("none", "", 0, << >>, << >>, << >>, i.pos)

\* Parser::next up to and including the read of the event data: the register
\* index (whose failed read is the end of the log), the template digest, the
\* template name and the event-data span
read_header(s, p) ==
    LET i == read_u32(s, p)
    IN  IF ~i.ok THEN index_read_failed(i)
    ELSE LET d == read_exact(s, i.pos, TemplateSha1Len)
    IN  IF ~d.ok THEN Header("err", "Io", i.val, << >>, << >>, << >>, d.pos)
    ELSE LET nl == read_u32(s, d.pos)
    IN  IF ~nl.ok THEN Header("err", "Io", i.val, d.bytes, << >>, << >>, nl.pos)
    ELSE LET n == read_exact(s, nl.pos, nl.val)
    IN  IF ~n.ok THEN Header("err", "Io", i.val, d.bytes, << >>, << >>, n.pos)
    ELSE IF ~from_utf8(n.bytes)
         THEN Header("err", "Utf8", i.val, d.bytes, n.bytes, << >>, n.pos)
    ELSE LET el == read_u32(s, n.pos)
    IN  IF ~el.ok THEN Header("err", "Io", i.val, d.bytes, n.bytes, << >>, el.pos)
    ELSE LET e == read_exact(s, el.pos, el.val)
    IN  IF ~e.ok THEN Header("err", "Io", i.val, d.bytes, n.bytes, << >>, e.pos)
    ELSE Header("ok", "", i.val, d.bytes, n.bytes, e.bytes, e.pos)

Result(kind, err, h, spanRead, data, tr) ==
    [kind |-> kind, err |-> err, index |-> h.index,
     template_sha1 |-> h.template_sha1, template_name |-> h.template_name,
     span |-> h.span, spanRead |-> spanRead, data |-> data,
     pos |-> h.pos, tracker |-> tr]

\* self.pcr_tracker.extend(pcr_index, &event_data)? and Ok(Some(Event {..}))
return_event(h, data, tr, x) ==
    IF ~x.ok
    THEN Result("err", "Tpmless", h, TRUE, data, tr)
    ELSE Result("some", "", h, TRUE, data, x.tracker)

\* an extension with only the bytes of the span that the decode consumed
extend_consumed(h, tr, data) ==
    IF data.kind # "ok"
    THEN Result(data.kind, data.err, h, TRUE, data, tr)
    ELSE return_event(h, data, tr, extend(tr, h.index, SubSeq(h.span, 1, data.pos)))

\* EventData::parse(..)? on the decoded data, then the extension of the
\* tracker with the whole span
extend_decoded(h, tr, data) ==
    IF data.kind # "ok"
    THEN Result(data.kind, data.err, h, TRUE, data, tr)
    ELSE return_event(h, data, tr, extend(tr, h.index, h.span))

\* the decode error, if any, returned with the tracker x already extended
decoded_after_extend(h, tr, x, data) ==
    IF ~x.ok THEN Result("err", "Tpmless", h, TRUE, data, tr)
    ELSE IF data.kind # "ok" THEN Result(data.kind, data.err, h, TRUE, data, x.tracker)
    ELSE Result("some", "", h, TRUE, data, x.tracker)

\* the tracker extended before the span is decoded
extend_and_decode(h, tr) ==
    decoded_after_extend(h, tr, extend(tr, h.index, h.span),
        EventData_parse(h.template_name, h.span))

\* Parser::next from EventData::parse on: decode the span, then extend the
\* tracker, then return the event
decode_and_extend(h, tr) ==
    extend_decoded(h, tr, EventData_parse(h.template_name, h.span))

\* Parser::next once the header and the span are read (or not)
next_of(h, tr) ==
    IF h.kind = "ok"
    THEN decode_and_extend(h, tr)
    ELSE Result(h.kind, h.err, h, FALSE, NoData, tr)

\* <Parser as FallibleIterator>::next on source s at cursor p with tracker tr
next(s, p, tr) == next_of(read_header(s, p), tr)

---------------------------------------------------------------------------
(* The inputs: logs in the binary layout that Parser::next reads *)

EncodeU32(n) ==
    << n % 256, (n \div 256) % 256, (n \div 65536) % 256, (n \div 16777216) % 256 >>

\* a length-prefixed field
Field(content) == EncodeU32(Len(content)) \o content

Fill(n, b) == [i \in 1..n |-> b]

\* a "d-ng" field: identifier, ':', NUL, digest bytes
DigestNg(algo, digest) == Field(algo \o << Colon, Nul >> \o digest)

Rec(index, tname, data) ==
    [index |-> index, template_sha1 |-> Fill(TemplateSha1Len, 1),
     template_name |-> tname, data |-> data]

\* one record on the wire
Encode(r) ==
    EncodeU32(r.index) \o r.template_sha1 \o Field(r.template_name) \o Field(r.data)

RECURSIVE EncodeLog(_)
EncodeLog(rs) ==
    IF rs = << >> THEN << >> ELSE Encode(Head(rs)) \o EncodeLog(Tail(rs))

GoodSha1 == DigestNg(AlgoSha1, Fill(20, 7))
GoodSha256 == DigestNg(AlgoSha256, Fill(32, 9))

Catalogue ==
    { \* decodable records
      Rec(0, TemplateImaNg, GoodSha1 \o Field(<< 97 >>)),
      Rec(1, TemplateImaNg, GoodSha256 \o Field(<< 98, Nul >>)),
      Rec(0, TemplateIma, Fill(Sha1Len, 5) \o Field(<< 99 >>)),
      \* decodable, with a byte of the span left over after the name
      Rec(0, TemplateImaNg, GoodSha1 \o Field(<< 100 >>) \o << 33 >>),
      \* decodable, the digest one byte long
      Rec(1, TemplateImaNg, DigestNg(AlgoSha256, << 9 >>) \o Field(<< 101 >>)),
      \* a register index outside the tracker's banks
      Rec(NumPcrs, TemplateImaNg, GoodSha1 \o Field(<< 102 >>)),
      \* template names outside the recognised set
      Rec(1, << 73, 77, 65 >>, GoodSha1 \o Field(<< 97 >>)),
      Rec(0, << 255 >>, << >>),
      \* templates with trailing decoders
      Rec(0, TemplateImaSig, GoodSha1 \o Field(<< 103, Nul >>)),
      Rec(0, TemplateImaSig, GoodSha1 \o Field(<< 103 >>)),
      Rec(0, TemplateImaBuf, GoodSha1 \o Field(<< 104, Nul >>)),
      Rec(0, TemplateImaModsig, GoodSha1 \o Field(<< 105, Nul >>)),
      \* malformed fields inside the span
      Rec(0, TemplateImaNg, Field(AlgoSha1) \o Field(<< 97 >>)),
      Rec(0, TemplateImaNg, Field(AlgoSha1 \o << Colon >>) \o Field(<< 97 >>)),
      Rec(0, TemplateImaNg, DigestNg(<< 109, 100, 53 >>, Fill(16, 3)) \o Field(<< 97 >>)),
      Rec(0, TemplateImaNg, GoodSha1 \o Field(<< 255 >>)),
      \* a name field declared longer than the rest of the span
      Rec(0, TemplateImaNg, GoodSha1 \o EncodeU32(9) \o << 97 >>) }

Logs == UNION { [1..n -> Catalogue] : n \in 0..MaxRecords }

\* the records a source may end inside of
Truncatable ==
    { Rec(0, TemplateImaNg, GoodSha1 \o Field(<< 97 >>)),
      Rec(0, TemplateIma, Fill(Sha1Len, 5) \o Field(<< 99 >>)),
      Rec(0, << 255 >>, << >>) }

Front(rs) == SubSeq(rs, 1, Len(rs) - 1)

\* the sources written from the records rs: all of them, or all but the
\* last and at least one byte of the last
Streams(rs) ==
    IF rs = << >> THEN { << >> }
    ELSE IF rs[Len(rs)] \in Truncatable
         THEN { SubSeq(EncodeLog(rs), 1, n) :
                    n \in (Len(EncodeLog(Front(rs))) + 1)..Len(EncodeLog(rs)) }
         ELSE { EncodeLog(rs) }

\* inputs of the parse_digest specification: "d-ng" field contents made of an
\* identifier, a separator and a tail, with the declared length exact or
\* one more than the bytes present
RECURSIVE Tails(_)
Tails(n) ==
    IF n = 0 THEN { << >> }
    ELSE LET shorter == Tails(n - 1)
         IN  shorter \cup { Append(t, b) : t \in shorter, b \in { Nul, Colon, 7 } }

DigestContents ==
    { a \o sep \o t :
        a \in { << >>, AlgoSha1, AlgoSha256, << 109, 100, 53 >>, << 255 >> },
        sep \in { << >>, << Colon >>, << Colon, Nul >>, << Colon, 88 >>,
                  << Colon, 255 >>, << Colon, Nul, Colon, Nul >> },
        t \in Tails(MaxTail) }

DigestFields ==
    { EncodeU32(Len(c) + k) \o c : c \in DigestContents, k \in { 0, 1 } }

---------------------------------------------------------------------------
(* The parser as a state machine *)

NoCall ==
    [kind |-> "init", err |-> "", index |-> 0, template_sha1 |-> << >>,
     template_name |-> << >>, span |-> << >>, spanRead |-> FALSE,
     data |-> NoData, start |-> 0]

DigIdle == [buf |-> << >>, called |-> FALSE, res |-> DigestResult("none", "", << >>, << >>, 0)]

\* Parser::new(reader) over a source written from records of the catalogue
Init ==
    /\ log \in Logs
    /\ stream \in Streams(log)
    /\ pos = 0
    /\ banks = NewTracker
    /\ last = NoCall
    /\ yielded = << >>
    /\ failed = FALSE
    /\ pc = "iter"
    /\ snapshot = << >>
    /\ dig = DigIdle

\* the caller's view of what next returned: r
Returned(r) ==
    /\ pos' = r.pos
    /\ banks' = r.tracker
    /\ last' = [kind |-> r.kind, err |-> r.err, index |-> r.index,
                template_sha1 |-> r.template_sha1,
                template_name |-> r.template_name,
                span |-> r.span, spanRead |-> r.spanRead,
                data |-> r.data, start |-> pos]
    /\ yielded' = IF r.kind = "some"
                  THEN Append(yielded,
                           [index |-> r.index,
                            template_sha1 |-> r.template_sha1,
                            data |-> r.span, start |-> pos,
                            afterError |-> failed])
                  ELSE yielded
    /\ failed' = (failed \/ r.kind = "err")
    /\ pc' = IF r.kind = "panic" THEN "aborted" ELSE pc

\* one call of parser.next()
NextCall ==
    /\ pc = "iter"
    /\ Returned(next(stream, pos, banks))
    /\ UNCHANGED << stream, snapshot, log, dig >>

\* parser.pcr_values(), which consumes the parser
PcrValues ==
    /\ pc = "iter"
    /\ snapshot' = pcr_extender_to_values(banks)
    /\ pc' = "done"
    /\ UNCHANGED << stream, pos, banks, last, yielded, failed, log, dig >>

Next == NextCall \/ PcrValues

Spec == Init /\ [][Next]_vars

---------------------------------------------------------------------------
(* parse_digest alone, on every field of DigestFields *)

InitDigest ==
    /\ log = << >>
    /\ stream = << >>
    /\ pos = 0
    /\ banks = NewTracker
    /\ last = NoCall
    /\ yielded = << >>
    /\ failed = FALSE
    /\ pc = "iter"
    /\ snapshot = << >>
    /\ \E f \in DigestFields : dig = [DigIdle EXCEPT !.buf = f]

\* parse_digest(false, &mut buf.as_slice())
DigestCall ==
    /\ ~dig.called
    /\ dig' = [dig EXCEPT !.called = TRUE, !.res = parse_digest(FALSE, dig.buf, 0)]
    /\ UNCHANGED << stream, pos, banks, last, yielded, failed, pc, snapshot, log >>

NextDigest == DigestCall

SpecDigest == InitDigest /\ [][NextDigest]_vars

---------------------------------------------------------------------------
(* Properties *)

\* offset in the complete source of the first byte of record i of the log
RecordStart(i) == Len(EncodeLog(SubSeq(log, 1, i - 1)))

\* the source ends inside the record that starts at offset p
EndsInside(p) ==
    \E i \in 1..Len(log) :
        /\ RecordStart(i) = p
        /\ p < Len(stream)
        /\ Len(stream) < RecordStart(i + 1)

\* C1: next returns end-of-log only when no byte of a record is left to read,
\* and a source that ends inside a record makes the call that reads this
\* record return an error.
C1_EndOfLogOnlyAtBoundary ==
    /\ last.kind = "none" => last.start = Len(stream)
    /\ (last.kind # "init" /\ EndsInside(last.start)) => last.kind = "err"

\* C2: no record is yielded by a call made after some call returned an error.
C2_NoRecordAfterError ==
    \A i \in 1..Len(yielded) : ~yielded[i].afterError

\* the spans of the yielded records that target register r, in yield order
Chain(r) ==
    LET Targets(y) == y.index = r
        sel == SelectSeq(yielded, Targets)
    IN  [i \in 1..Len(sel) |-> sel[i].data]

\* C3: the tracker, and the snapshot taken from it, are the replay of the
\* yielded records in log order onto an empty tracker: one extension per
\* yielded record, on its register index, with nothing else extended; and
\* while no call has failed the yielded records are the first records of
\* the log.
C3_TrackerReplaysYielded ==
    /\ \A a \in Algorithms : \A r \in Registers : banks[a][r] = Chain(r)
    /\ \A i \in 1..Len(yielded) : yielded[i].index \in Registers
    /\ \A i \in 1..Len(yielded) : \A j \in 1..Len(yielded) :
           i < j => yielded[i].start < yielded[j].start
    /\ last.kind = "some" =>
           /\ yielded # << >>
           /\ yielded[Len(yielded)].start = last.start
    /\ ~failed =>
           /\ Len(yielded) <= Len(log)
           /\ \A i \in 1..Len(yielded) :
                  /\ yielded[i].index = log[i].index
                  /\ yielded[i].data = log[i].data
    /\ pc = "done" =>
           \A r \in Registers :
               IF Chain(r) = << >> THEN r \notin DOMAIN snapshot
               ELSE /\ r \in DOMAIN snapshot
                    /\ snapshot[r] = [sha1 |-> Chain(r), sha256 |-> Chain(r),
                                      sha384 |-> Chain(r), sha512 |-> Chain(r)]

C3_Witness ==
    /\ pc = "done"
    /\ Len(yielded) = 1
    /\ Len(log) = 2
    /\ last.kind = "some"
    /\ pos < Len(stream)

DecodeErrors ==
    { "Io", "Utf8", "Utf8Str", "FromCString", "DataError", "UnknownAlgo",
      "UnsupportedTemplate" }

\* C4: a call of next that returns a decode error leaves the tracker as it
\* was before the call.
C4_DecodeErrorKeepsTracker ==
    [][(last' # last /\ last'.kind = "err" /\ last'.err \in DecodeErrors)
           => banks' = banks]_vars

C4_Witness ==
    /\ last.kind = "err"
    /\ last.err = "UnsupportedTemplate"
    /\ yielded # << >>
    /\ \E a \in Algorithms : \E r \in Registers : banks[a][r] # Zero

\* a record whose fields decode and whose register the tracker holds
Decodable(r) ==
    /\ r.index \in Registers
    /\ from_utf8(r.template_name)
    /\ EventData_parse(r.template_name, r.data).kind = "ok"

WellFormedLog ==
    /\ stream = EncodeLog(log)
    /\ \A i \in 1..Len(log) : Decodable(log[i])

\* C5: on a well-formed log of k records no call fails, the records yielded
\* are the records of the log in order, each read from its boundary, and
\* end-of-log is returned exactly by the calls made with the source
\* exhausted, when all k records have been yielded.
C5_WellFormedLogYieldsAll ==
    WellFormedLog =>
        /\ last.kind \in { "init", "some", "none" }
        /\ ~failed
        /\ Len(yielded) <= Len(log)
        /\ \A i \in 1..Len(yielded) :
               /\ yielded[i].index = log[i].index
               /\ yielded[i].template_sha1 = log[i].template_sha1
               /\ yielded[i].data = log[i].data
               /\ yielded[i].start = RecordStart(i)
        /\ pos = RecordStart(Len(yielded) + 1)
        /\ last.kind = "none" <=> (last.kind # "init" /\ last.start = Len(stream))
        /\ last.kind = "none" => Len(yielded) = Len(log)

C5_Witness ==
    /\ WellFormedLog
    /\ Len(log) = 2
    /\ Len(yielded) = 2
    /\ last.kind = "none"

\* C6: the key set of the snapshot is exactly the set of register indices
\* of the yielded records, and no entry is all-zero.
C6_SnapshotKeysAreExtended ==
    pc = "done" =>
        /\ DOMAIN snapshot = { yielded[i].index : i \in 1..Len(yielded) }
        /\ \A r \in DOMAIN snapshot : snapshot[r].sha1 # Zero

C6_Witness ==
    /\ pc = "done"
    /\ DOMAIN snapshot = { 1 }

CanonicalSize(algo) ==
    IF algo = AlgoSha1 THEN 20
    ELSE IF algo = AlgoSha256 THEN 32
    ELSE IF algo = AlgoSha384 THEN 48
    ELSE 64

\* C7: the digest of every yielded record has the canonical length of its
\* algorithm.
C7_DigestHasCanonicalLength ==
    last.kind = "some" =>
        Len(last.data.digest.digest) = CanonicalSize(last.data.digest.algo)

\* the content of the field held by dig.buf, when all of it is present
DigContent == SubSeq(dig.buf, U32Len + 1, Len(dig.buf))
DigComplete == LE32(SubSeq(dig.buf, 1, U32Len)) = Len(DigContent)
HasColon(c) == \E i \in 1..Len(c) : c[i] = Colon
BeforeColon(c) == SubSeq(c, 1, position(c, Colon))
AfterSeparator(c) == SubSeq(c, position(c, Colon) + 3, Len(c))

\* C8: non-legacy digest decode of a complete field never aborts; without a
\* ':' it fails with the malformed-data error; with one, the identifier is
\* what precedes the first ':', the two bytes from the ':' on are skipped
\* whatever the second is, and the rest is the digest.
C8_DigestDecodeNeverAborts ==
    (dig.called /\ DigComplete) =>
        /\ dig.res.kind # "panic"
        /\ ~HasColon(DigContent) =>
               (dig.res.kind = "err" /\ dig.res.err = "DataError")
        /\ (HasColon(DigContent) /\ BeforeColon(DigContent) \in Algorithms) =>
               /\ dig.res.kind = "ok"
               /\ dig.res.algo = BeforeColon(DigContent)
               /\ dig.res.digest = AfterSeparator(DigContent)

Row(variant, digest_legacy, name_legacy, trailing) ==
    [variant |-> variant,
     fields |-> << [field |-> "digest", legacy |-> digest_legacy],
                   [field |-> "name", legacy |-> name_legacy] >>
                \o [i \in 1..Len(trailing) |-> [field |-> trailing[i], legacy |-> FALSE]]]

\* the table of templates of the dispatcher's contract
TemplateTable(t) ==
    IF t = TemplateIma THEN Row("Ima", TRUE, TRUE, << >>)
    ELSE IF t = TemplateImaNg THEN Row("ImaNg", FALSE, TRUE, << >>)
    ELSE IF t = TemplateImaSig THEN Row("ImaSig", FALSE, FALSE, << "signature" >>)
    ELSE IF t = TemplateImaBuf THEN Row("ImaBuf", FALSE, FALSE, << "buffer" >>)
    ELSE Row("ImaModsig", FALSE, FALSE, << "signature", "modsig" >>)

Recognised ==
    { TemplateIma, TemplateImaNg, TemplateImaSig, TemplateImaBuf, TemplateImaModsig }

IsPrefix(a, b) == Len(a) <= Len(b) /\ a = SubSeq(b, 1, Len(a))

HeaderLen == U32Len + TemplateSha1Len + U32Len + Len(last.template_name) + U32Len
DeclaredLen ==
    LE32(SubSeq(stream, last.start + HeaderLen - U32Len + 1, last.start + HeaderLen))

\* C10: once next has read the event data, the span it hands to the
\* dispatcher and to extend is the declared number of bytes of the source
\* after the header, the dispatcher consumes no more than the span, and the
\* cursor is at the first byte after the span whether the decode succeeded
\* or failed.
C10_SpanIsWholeEventData ==
    last.spanRead =>
        /\ Len(last.span) = DeclaredLen
        /\ last.span = SubSeq(stream, last.start + HeaderLen + 1,
                                  last.start + HeaderLen + DeclaredLen)
        /\ pos = last.start + HeaderLen + DeclaredLen
        /\ last.data.pos <= Len(last.span)
        /\ last.kind = "some" =>
               /\ yielded[Len(yielded)].data = last.span
               /\ \A a \in Algorithms :
                      /\ banks[a][last.index] # Zero
                      /\ banks[a][last.index][Len(banks[a][last.index])] = last.span

C10_Witness ==
    /\ last.kind = "some"
    /\ last.data.pos < Len(last.span)
    /\ pos < Len(stream)

===========================================================================
